---- MODULE Spec2Model ----
(***************************************************************************)
(* OPG sync service: the per-merchant sync run (sync_service.sync_user),   *)
(* the batch run over merchants (sync_service.sync_all_users), the record  *)
(* store they write to (adalo_client.AdaloClient) and the remote NAV       *)
(* service they read from through opg.py.                                  *)
(*                                                                         *)
(* One action per external call of sync_user: between two of them the      *)
(* remote service may change and the process may be killed.                *)
(*                                                                         *)
(* Four specifications over the same variables:                            *)
(*   Spec       runs and batches, with the environment and process kills   *)
(*   SpecBatch  a batch left to itself, with the steps bound to end        *)
(*   SpecSwap   two request threads in the credential swap on opg.py       *)
(*   SpecSequential  the same swap, one request at a time                  *)
(*   SpecAgg    aggregate_daily_revenues on every list of files            *)
(*   SpecExtract  opg.extract_p7b_to_xml on every kind of container        *)
(*   SpecRequest  the requests opg.py's commands build and sign            *)
(*   SpecMtom     opg.save_mtom_attachments on every response              *)
(***************************************************************************)
EXTENDS Integers, Sequences, FiniteSets, TLC

\* ---- bounds of the model ----
NumUsers == 2
FirstFile == 9
MaxFile == 10
MaxRuns == 2
MaxCrashes == 1
MaxDocs == 2
MaxNyn == 3
MaxRequests == 2
MaxParts == 3

Users == 1..NumUsers

VARIABLES
    userRec,    \* Adalo users collection: user id -> stored sync fields
    remote,     \* NAV service: user id -> retained file window [min, max]
    revenues,   \* Adalo daily-revenue collection, in creation order
    run,        \* the sync_user invocation in progress (or Idle)
    batch,      \* the sync_all_users invocation in progress (or idle)
    runs,       \* number of sync_user invocations so far (also the clock)
    crashes,    \* number of process kills so far
    aborted,    \* history: user id -> a run stopped after a create, before the watermark write
    pending,    \* history: user id -> files written by the latest run when it so stopped
    opg_path,   \* the file opg.py: the credentials its constants hold
    backup_path, \* the file opg.py.backup: Absent, or the credentials it holds
    thread,     \* user id -> the request thread running sync_user for that user
    sent,       \* history: the opg.py subprocesses run and the credentials each loaded
    xml_paths,  \* aggregate_daily_revenues: its list xml_files, by the files' names
    agg,        \* aggregate_daily_revenues: position in the list, files found malformed
    xml_doc,    \* the content of the file of the latest iteration
    file_data,  \* aggregate_daily_revenues: file number -> record
    p7b_path,   \* extract_p7b_to_xml: the container file it is called on
    extraction, \* extract_p7b_to_xml: position, locals, strategies called
    output_path, \* extract_p7b_to_xml: the .xml file beside the container
    cred,       \* opg.py: its module constants TECH_LOGIN .. TAX_NUMBER_8DIG
    command,    \* opg.py main: the command running, its options, its position
    built,      \* history: the requests built, in order, with their inputs
    resp,       \* save_mtom_attachments: the response it is called on
    mtom,       \* save_mtom_attachments: position in parts, idx, saved
    out_dir     \* save_mtom_attachments: the names of the files in out_dir

syncVars == <<userRec, remote, revenues, run, batch, runs, crashes, aborted, pending>>
swapVars == <<opg_path, backup_path, thread, sent>>
aggVars == <<xml_paths, agg, xml_doc, file_data>>
extractVars == <<p7b_path, extraction, output_path>>
requestVars == <<cred, command, built>>
mtomVars == <<resp, mtom, out_dir>>
opgVars == <<extractVars, requestVars, mtomVars>>
restVars == <<swapVars, aggVars, opgVars>>
vars == <<syncVars, restVars>>

\* ---- Python values ----

\* A stored text field is a sequence of characters: 0..9 are the digits,
\* NonDigit is any other character. The empty sequence is None / "" (falsy).
NonDigit == 10
Unset == <<>>
Garbage == <<NonDigit>>

\* str(n) for n >= 0: its decimal digits.
RECURSIVE str(_)
str(n) == IF n < 10 THEN <<n>> ELSE Append(str(n \div 10), n % 10)

\* int(s) succeeds on a non-empty sequence of digits, else raises ValueError.
IsDecimal(s) == Len(s) > 0 /\ \A i \in 1..Len(s) : s[i] \in 0..9

RECURSIVE int(_)
int(s) == IF Len(s) = 0 THEN 0
          ELSE 10 * int(SubSeq(s, 1, Len(s) - 1)) + s[Len(s)]

\* sorted(...) of a set of file numbers: ascending.
Min(S) == CHOOSE x \in S : \A y \in S : x <= y

Max(S) == CHOOSE x \in S : \A y \in S : x >= y

\* Mutant: the items are taken in descending order.
RECURSIVE sorted_Descending(_)
sorted_Descending(S) == IF S = {} THEN <<>>
                        ELSE <<Max(S)>> \o sorted_Descending(S \ {Max(S)})

RECURSIVE sorted(_)
sorted(S) == IF S = {} THEN <<>>
             ELSE <<Min(S)>> \o sorted(S \ {Min(S)})

\* The users collection lists its records by ascending id.
RECURSIVE InOrder(_)
InOrder(S) == IF S = {} THEN <<>>
              ELSE <<Min(S)>> \o InOrder(S \ {Min(S)})

\* ---- results of sync_user ----

Result(success, message, files_synced, revenues_created) ==
    [success |-> success, message |-> message,
     files_synced |-> files_synced, revenues_created |-> revenues_created]

NoResult == Result(FALSE, "none", 0, 0)

\* Python's None where a number may stand, and where sftp_result may.
None == -1
NoSftpResult == [skipped |-> TRUE]

\* The result of a completed sync: the four keys and 'sftp_uploaded'.
Synced(files_synced, revenues_created, sftp_result) ==
    [success |-> TRUE, message |-> "Synced",
     files_synced |-> files_synced, revenues_created |-> revenues_created,
     sftp_uploaded |-> IF sftp_result = NoSftpResult THEN None ELSE sftp_result.uploaded]

\* ---- status of the NAV service ----

NoStatus == [ok |-> FALSE, min |-> 0, max |-> 0]
StatusOf(u) == [ok |-> TRUE, min |-> remote[u].min, max |-> remote[u].max]

\* Mutant: the result of get_nav_status is used unchecked.
StatusMissing_Ignored(status) == FALSE

\* `if not status` (get_nav_status returned None).
StatusMissing(status) == ~status.ok

\* ---- the sync_user invocation ----

Idle == [pc |-> "idle", caller |-> "none", user_id |-> 0,
         lastbizonylatletoltve |-> Unset, blank |-> "none",
         rec0 |-> [lastbizonylatletoltve |-> Unset, lastbizonylatszinkron |-> 0],
         prev_written |-> {}, error |-> "none",
         status |-> NoStatus, start_file |-> 0, end_file |-> 0,
         dl |-> "none", request |-> [start |-> 0, end |-> 0],
         p7b_files |-> {}, xml_files |-> {}, file_revenues |-> {}, todo |-> <<>>,
         written |-> <<>>, revenues_created |-> 0, sftp_result |-> NoSftpResult,
         updated |-> FALSE, result |-> NoResult]

NoBatch == [pc |-> "idle", users_to_sync |-> <<>>, idx |-> 0,
            total_users |-> 0, successful |-> 0, failed |-> 0,
            user_results |-> <<>>]

\* ---- aggregate_daily_revenues and parse_xml_receipts ----

\* current_year, the year the receipts are filtered by.
TargetYear == 2025

\* A file name is told by whether it ends in _{14 digits}_{digits}, and then
\* by the two numbers; the 14 digits are kept as their first 8 and last 6.
\* The second timestamp has month 13.
NoTimestamp == [date |-> 0, time |-> 0]
NoMatch == [match |-> FALSE, timestamp |-> NoTimestamp, file_number |-> 0]
Timestamps == {[date |-> 20251119, time |-> 174852],
               [date |-> 20251345, time |-> 174852]}
FileNames ==
    {NoMatch} \cup {[match |-> TRUE, timestamp |-> t, file_number |-> n] :
                       t \in Timestamps, n \in FirstFile..MaxFile}

\* The lists of up to MaxDocs files; the service numbers the files of one
\* cash register uniquely.
XmlFileLists ==
    {files \in UNION {[1..n -> FileNames] : n \in 0..MaxDocs} :
        \A i, j \in DOMAIN files :
            (i < j /\ files[i].match /\ files[j].match)
                => files[i].file_number # files[j].file_number}

\* `timestamp_str[:8]`
DatePart(timestamp) == timestamp.date

\* `datetime.strptime(..., '%Y%m%d')` succeeds on the dates of the calendar.
DaysIn(year, month) ==
    CASE month \in {4, 6, 9, 11} -> 30
      [] month = 2 -> IF year % 4 = 0 /\ (year % 100 # 0 \/ year % 400 = 0) THEN 29 ELSE 28
      [] OTHER -> 31

ValidDate(d) ==
    LET year == d \div 10000
        month == (d \div 100) % 100
        day == d % 100
    IN year >= 1 /\ month \in 1..12 /\ day \in 1..DaysIn(year, month)

\* A receipt element NYN: DTS is the local date of its timestamp as
\* yyyymmdd, 0 when the element is missing, empty or no ISO timestamp; SUM is
\* its text (empty when missing), CNC its text.
On(year, month, day) == year * 10000 + month * 100 + day

\* The elements tried: three of the target year (the second cancelled), two
\* of the year before, one without timestamp, one whose amount is no number.
Elements ==
    {[DTS |-> On(TargetYear, 11, 20), SUM |-> str(1000), CNC |-> "0"],
     [DTS |-> On(TargetYear, 11, 20), SUM |-> str(2000), CNC |-> "1"],
     [DTS |-> On(TargetYear, 11, 20), SUM |-> str(3000), CNC |-> "0"],
     [DTS |-> On(TargetYear - 1, 12, 31), SUM |-> str(1000), CNC |-> "0"],
     [DTS |-> On(TargetYear - 1, 12, 31), SUM |-> str(2000), CNC |-> "1"],
     [DTS |-> 0, SUM |-> str(1000), CNC |-> "0"],
     [DTS |-> On(TargetYear, 11, 20), SUM |-> Garbage, CNC |-> "0"]}

\* The content of an XML file: not well-formed, or its NYN elements in order.
Malformed == [wellformed |-> FALSE, NYN |-> <<>>]
NoDoc == [wellformed |-> TRUE, NYN |-> <<>>]
Docs ==
    {Malformed} \cup {[wellformed |-> TRUE, NYN |-> nyn] :
                        nyn \in UNION {[1..n -> Elements] : n \in 0..MaxNyn}}

\* `receipt_dt.year`
YearOf(d) == d \div 10000

\* Mutant: receipts of every year are kept.
OtherYear_Kept(dts, current_year) == FALSE

\* `if receipt_dt.year != current_year: continue`
OtherYear(dts, current_year) == YearOf(dts) # current_year

\* The loop of parse_xml_receipts over the NYN elements.
RECURSIVE Receipts(_, _)
Receipts(nyn, current_year) ==
    IF nyn = <<>> THEN <<>>
    ELSE LET e == Head(nyn)
             rest == Receipts(Tail(nyn), current_year)
         IN IF e.DTS = 0 \/ OtherYear(e.DTS, current_year) \/ ~IsDecimal(e.SUM)
            THEN rest
            ELSE <<[date |-> e.DTS, amount |-> int(e.SUM),
                    cancelled |-> e.CNC = "1"]>> \o rest

\* Mutant: the parse error is not caught.
ParseXmlReceipts_NoHandler(doc, current_year) ==
    IF ~doc.wellformed
    THEN [raised |-> TRUE, receipts |-> <<>>]
    ELSE [raised |-> FALSE, receipts |-> Receipts(doc.NYN, current_year)]

\* parse_xml_receipts: `except ET.ParseError: return []`.
ParseXmlReceipts(doc, current_year) ==
    IF ~doc.wellformed
    THEN [raised |-> FALSE, receipts |-> <<>>]
    ELSE [raised |-> FALSE, receipts |-> Receipts(doc.NYN, current_year)]

\* Mutant: cancelled receipts are counted too.
RECURSIVE Fold_CountCancelled(_, _)
Fold_CountCancelled(receipts, data) ==
    IF receipts = <<>> THEN data
    ELSE Fold_CountCancelled(Tail(receipts),
              [data EXCEPT !.receipts_count = @ + 1,
                           !.total_revenue = @ + Head(receipts).amount])

\* `for receipt in receipts`: cancelled ones are skipped, the others counted.
RECURSIVE Fold(_, _)
Fold(receipts, data) ==
    IF receipts = <<>> THEN data
    ELSE Fold(Tail(receipts),
              IF Head(receipts).cancelled
              THEN data
              ELSE [data EXCEPT !.receipts_count = @ + 1,
                                !.total_revenue = @ + Head(receipts).amount])

NoData == [n \in {} |-> 0]

\* Mutant: the records are keyed by their calendar date.
Put_ByDate(data, file_number, record) ==
    [n \in DOMAIN data \cup {record.date} |->
        IF n = record.date THEN record ELSE data[n]]

\* `file_data[file_number] = ...`
Put(data, file_number, record) ==
    [n \in DOMAIN data \cup {file_number} |->
        IF n = file_number THEN record ELSE data[n]]

\* Mutant: a file without counted receipts gets no record.
AggregateFile_OmitEmpty(data, name, doc, current_year) ==
    IF ~name.match \/ ~ValidDate(DatePart(name.timestamp))
    THEN data
    ELSE LET record == Fold(ParseXmlReceipts(doc, current_year).receipts,
                            [file_number |-> name.file_number,
                             date |-> DatePart(name.timestamp),
                             receipts_count |-> 0,
                             total_revenue |-> 0])
         IN IF record.receipts_count = 0 THEN data
            ELSE Put(data, name.file_number, record)

\* One iteration of `for xml_path in xml_files`: a name that does not match,
\* or whose date is none, is passed over with a warning; else the file's
\* record is initialised from the name and the receipts are folded into it.
AggregateFile(data, name, doc, current_year) ==
    IF ~name.match \/ ~ValidDate(DatePart(name.timestamp))
    THEN data
    ELSE Put(data, name.file_number,
             Fold(ParseXmlReceipts(doc, current_year).receipts,
                  [file_number |-> name.file_number,
                   date |-> DatePart(name.timestamp),
                   receipts_count |-> 0,
                   total_revenue |-> 0]))

\* ---- the credential swap on opg.py ----

\* The content of opg.py is told by the credentials its constants hold:
\* Original is the hardcoded set of the repository, u is merchant u's.
Original == 0
Absent == -1

\* A request thread of web_api: its position in get_nav_status or
\* download_nav_files and the locals of that call.
NoThread == [pc |-> "idle", call |-> "none", opg_content |-> Original,
             outcome |-> "none", restored |-> Original, raised |-> FALSE]

\* ---- opg.py: extract_p7b_to_xml ----

\* What `openssl cms -verify -noverify` does on a container, as
\* try_openssl_cms tells the cases apart:
\*   timeout, not_found, subprocess_error   subprocess.run raises (caught)
\*   nonzero_exit     returncode # 0
\*   no_output        returncode 0, empty stdout
\*   not_utf8         stdout does not decode (UnicodeDecodeError, caught)
\*   no_declaration   stdout decodes and holds no '<?xml'
\*   xml              stdout decodes and holds '<?xml'
CmsOutcomes == {"timeout", "not_found", "subprocess_error", "nonzero_exit",
                "no_output", "not_utf8", "no_declaration", "xml"}

\* What the container's bytes hold, as extract_xml_from_binary's patterns
\* tell the cases apart:
\*   unreadable       read_bytes raises (caught)
\*   no_declaration   no '<?xml ... ?>'
\*   rows             a declaration, then <ROWS ...> ... </ROWS> (any case)
\*   upper_root       a declaration, then another root element, closed,
\*                    whose name starts with a capital letter
\*   lower_root       the same with a name that starts otherwise
\*   unclosed         a declaration and a root element without its end tag
BinaryKinds == {"unreadable", "no_declaration", "rows", "upper_root",
                "lower_root", "unclosed"}

\* A path with no file behind it, and the container files.
Missing == [exists |-> FALSE, cms |-> "not_found", binary |-> "unreadable"]
P7bFiles ==
    {Missing} \cup [exists : {TRUE}, cms : CmsOutcomes, binary : BinaryKinds]

\* Python's None where a text may stand, and a path with no file behind it
\* where a file's text may.
NoContent == "None"
NoFile == "no file"

\* try_openssl_cms: the decoded stdout, or None.
TryOpensslCms(p) ==
    IF p.cms = "xml" THEN "stdout" ELSE NoContent

\* extract_xml_from_binary: the text matched by the <ROWS> pattern, else by
\* the pattern built from the sniffed root tag ([A-Z][A-Za-z0-9_]*), or None.
ExtractXmlFromBinary(p) ==
    CASE p.binary = "rows"       -> "declaration..</ROWS>"
      [] p.binary = "upper_root" -> "declaration..</Root>"
      [] OTHER                   -> NoContent

\* Mutant: the pattern strategy is run whatever the tool returned.
NeedsFallback_Always(xml_content) == TRUE

\* `if not xml_content:` after try_openssl_cms.
NeedsFallback(xml_content) == xml_content = NoContent

\* extract_p7b_to_xml not entered: `calls` lists the strategies invoked, in
\* order; `returned` is "none", "True" or "False".
NoExtraction == [pc |-> "idle", xml_content |-> NoContent, method |-> "none",
                 calls |-> <<>>, returned |-> "none"]

\* No extraction is going on.
ExtractIdle ==
    /\ p7b_path = Missing
    /\ extraction = NoExtraction
    /\ output_path = NoFile

\* extract_p7b_to_xml is entered on the path p, no .xml beside it.
ExtractInit(p) ==
    /\ p7b_path = p
    /\ extraction = [NoExtraction EXCEPT !.pc = "exists"]
    /\ output_path = NoFile

\* ---- opg.py: the request documents ----

\* Here a text is a sequence of one-character strings; "" is <<>>.
Digits == {"0", "1", "2", "3", "4", "5", "6", "7", "8", "9"}
IsDigit(c) == c \in Digits

\* The module constants of opg.py, each one set or blank.
Creds ==
    [TECH_LOGIN : {<<>>, <<"l">>}, TECH_PASSWORD : {<<>>, <<"p">>},
     SIGNING_KEY : {<<>>, <<"s">>}, EXCHANGE_KEY : {<<>>, <<"x">>},
     TAX_NUMBER_8DIG : {<<>>, <<"6">>}]
NoCreds ==
    [TECH_LOGIN |-> <<>>, TECH_PASSWORD |-> <<>>, SIGNING_KEY |-> <<>>,
     EXCHANGE_KEY |-> <<>>, TAX_NUMBER_8DIG |-> <<>>]

\* The values uuid4 gives as request id.
RequestIds == {<<"a">>, <<"b">>}

\* An instant of the UTC clock: strftime's "%Y-%m-%dT%H:%M:%S" of it, and
\* its six digits of microseconds; two seconds, and in each two instants
\* of different milliseconds.
Seconds ==
    {<<"2", "0", "2", "2", "-", "0", "2", "-", "0", "1", "T",
       "1", "1", ":", "4", "0", ":", "4", "4">>,
     <<"2", "0", "2", "2", "-", "0", "2", "-", "0", "1", "T",
       "1", "1", ":", "4", "0", ":", "4", "5">>}
Micros == {<<"0", "3", "7", "1", "2", "3">>, <<"9", "0", "0", "0", "0", "0">>}
Instants == [second : Seconds, micro : Micros]

\* The hashes, as the text they are taken of under the name of the function.
sha512_upper(s) == [cryptoType |-> "SHA-512", of |-> s]
sha3_512_upper(s) == [cryptoType |-> "SHA3-512", of |-> s]

\* strftime("%Y-%m-%dT%H:%M:%S.%fZ")[:-4] + "Z": milliseconds kept.
now_utc_compact(instant) ==
    LET s == instant.second \o <<".">> \o instant.micro \o <<"Z">>
    IN SubSeq(s, 1, Len(s) - 4) \o <<"Z">>

\* Mutant: the milliseconds stay in the timestamp the signature is taken of.
TimestampSecondsOnly_Kept(timestamp) == timestamp

\* re.sub(r'\.\d+Z$', 'Z', timestamp): the first "." followed by digits
\* only, then "Z" at the end, is replaced by "Z".
TimestampSecondsOnly(timestamp) ==
    LET n == Len(timestamp)
        At == {i \in 1..n :
                 /\ timestamp[i] = "."
                 /\ i + 1 < n
                 /\ timestamp[n] = "Z"
                 /\ \A j \in (i + 1)..(n - 1) : IsDigit(timestamp[j])}
    IN IF At = {} THEN timestamp
       ELSE SubSeq(timestamp, 1, Min(At) - 1) \o <<"Z">>

\* .replace("-","").replace(":","").replace("Z","").replace("T","")
TimestampForSig(timestamp_seconds_only) ==
    LET Kept(c) == c \notin {"-", ":", "Z", "T"}
    IN SelectSeq(timestamp_seconds_only, Kept)

\* `if not (TECH_LOGIN and TECH_PASSWORD and TAX_NUMBER_8DIG): raise`
Incomplete(c) ==
    c.TECH_LOGIN = <<>> \/ c.TECH_PASSWORD = <<>> \/ c.TAX_NUMBER_8DIG = <<>>

\* `key_to_use = EXCHANGE_KEY if use_exchange_key else SIGNING_KEY`
KeyToUse(c, use_exchange_key) ==
    IF use_exchange_key THEN c.EXCHANGE_KEY ELSE c.SIGNING_KEY

\* What no document is: the RuntimeError left the builder.
RuntimeError ==
    [raised |-> TRUE, login |-> <<>>, passwordHash |-> sha512_upper(<<>>),
     taxNumber |-> <<>>, requestSignature |-> sha3_512_upper(<<>>),
     key_to_use |-> <<>>]

\* user_block: the <com:user> element, or the RuntimeError; key_to_use is
\* its local of that name.
user_block(c, request_id, timestamp, use_exchange_key) ==
    IF Incomplete(c) THEN RuntimeError
    ELSE LET key_to_use == KeyToUse(c, use_exchange_key)
             timestamp_for_sig == TimestampForSig(TimestampSecondsOnly(timestamp))
         IN [raised |-> FALSE,
             login |-> c.TECH_LOGIN,
             passwordHash |-> sha512_upper(c.TECH_PASSWORD),
             taxNumber |-> c.TAX_NUMBER_8DIG,
             requestSignature |->
                 sha3_512_upper(request_id \o timestamp_for_sig \o key_to_use),
             key_to_use |-> key_to_use]

\* header_block and user_block inside the envelope of one request kind.
Envelope(request, request_id, timestamp, user) ==
    [request |-> request, requestId |-> request_id, timestamp |-> timestamp,
     user |-> user]

\* build_status_xml: QueryCashRegisterStatusRequest.
build_status_xml(c, request_id, timestamp, use_exchange_key) ==
    Envelope("QueryCashRegisterStatusRequest", request_id, timestamp,
             user_block(c, request_id, timestamp, use_exchange_key))

\* build_file_xml: QueryCashRegisterFileDataRequest; the flag it passes to
\* user_block is the literal False.
build_file_xml(c, request_id, timestamp) ==
    Envelope("QueryCashRegisterFileDataRequest", request_id, timestamp,
             user_block(c, request_id, timestamp, FALSE))

\* The commands of main that build requests and the options each parser
\* has: `files` has no --use-exchange-key.
Commands ==
    {[cmd |-> "status", use_exchange_key |-> FALSE],
     [cmd |-> "status", use_exchange_key |-> TRUE],
     [cmd |-> "files", use_exchange_key |-> FALSE],
     [cmd |-> "download-all", use_exchange_key |-> FALSE],
     [cmd |-> "download-all", use_exchange_key |-> TRUE]}

\* No command of opg.py is running.
NoCommand == [cmd |-> "none", use_exchange_key |-> FALSE, pc |-> "idle"]

RequestIdle ==
    /\ cred = NoCreds
    /\ command = NoCommand
    /\ built = <<>>

\* opg.py holds the constants c and nothing was built yet.
RequestInit(c) ==
    /\ cred = c
    /\ command = NoCommand
    /\ built = <<>>

\* ---- opg.py: save_mtom_attachments ----

\* The bytes between two boundaries are a sequence of tokens: the line ends
\* "CRLF" and "LF" (whitespace), "--" (what follows the last boundary), a
\* header line's Content-Type ("octet-stream", "zip", "xop+xml"), a
\* name="..." parameter with its value ("name=a.zip", "name=b"), and "DATA",
\* bytes that are neither whitespace nor any of these.
Whitespace == {"CRLF", "LF"}
BinaryTypes == {"octet-stream", "zip"}
NameParams == {"name=a.zip", "name=b"}

\* What `content.split(b"--" + boundary)` gives, piece by piece: nothing,
\* a line end, the terminator, the root XML part, attachments with and
\* without name and with LF line ends, an attachment of no bytes, a header
\* without the blank line after it, and text without header.
Pieces ==
    {<<>>,
     <<"CRLF">>,
     <<"--", "CRLF">>,
     <<"CRLF", "xop+xml", "CRLF", "CRLF", "DATA", "CRLF">>,
     <<"CRLF", "octet-stream", "name=a.zip", "CRLF", "CRLF", "DATA", "CRLF">>,
     <<"CRLF", "octet-stream", "name=b", "CRLF", "CRLF", "DATA", "CRLF">>,
     <<"CRLF", "zip", "CRLF", "CRLF", "DATA", "CRLF">>,
     <<"LF", "octet-stream", "name=a.zip", "LF", "LF", "DATA", "LF">>,
     <<"CRLF", "zip", "name=a.zip", "CRLF", "CRLF", "CRLF">>,
     <<"CRLF", "zip", "CRLF", "DATA", "CRLF">>,
     <<"CRLF", "DATA", "CRLF">>}

\* The Content-Type header of a response: not multipart/related,
\* multipart/related without boundary parameter, or with one.
ContentTypes == {"text/xml", "multipart/related", "multipart/related; boundary"}

\* The responses: a multipart body is its pieces, up to MaxParts of them.
NoResponse == [ctype |-> "text/xml", parts |-> <<>>]
Responses ==
    {NoResponse, [ctype |-> "multipart/related", parts |-> <<>>]}
    \cup {[ctype |-> "multipart/related; boundary", parts |-> ps] :
             ps \in UNION {[1..n -> Pieces] : n \in 0..MaxParts}}

\* bytes.strip(): leading and trailing whitespace removed.
Strip(part) ==
    LET Solid == {i \in DOMAIN part : part[i] \notin Whitespace}
    IN IF Solid = {} THEN <<>> ELSE SubSeq(part, Min(Solid), Max(Solid))

\* bytes.find of a two-token pattern: the first position, 0 for none.
Find(part, first, second) ==
    LET At == {i \in 1..(Len(part) - 1) : part[i] = first /\ part[i + 1] = second}
    IN IF At = {} THEN 0 ELSE Min(At)

\* header_end: of b"\r\n\r\n", else of b"\n\n".
HeaderEnd(part) ==
    IF Find(part, "CRLF", "CRLF") > 0 THEN Find(part, "CRLF", "CRLF")
    ELSE Find(part, "LF", "LF")

\* A file name: a stem and ".zip"; attachment_{idx} has the stem
\* "attachment_" and the number idx, a given name the number 0.
FileName(stem, idx) == [stem |-> stem, idx |-> idx, suffix |-> ".zip"]

\* `name`: from the name parameter with ".zip" added unless it ends so,
\* else attachment_{idx}.zip.
NameOf(header, idx) ==
    IF \E k \in DOMAIN header : header[k] = "name=a.zip" THEN FileName("a", 0)
    ELSE IF \E k \in DOMAIN header : header[k] = "name=b" THEN FileName("b", 0)
    ELSE FileName("attachment_", idx)

\* The body of `for part in parts`: whether the piece is saved, and then
\* under which name and with which bytes.
Attachment(piece, idx) ==
    LET part == Strip(piece)
        header_end == HeaderEnd(part)
        header == SubSeq(part, 1, header_end - 1)
        body == SubSeq(part, header_end + 2, Len(part))
    IN IF part = <<>> \/ part = <<"--">> \/ header_end = 0
       THEN [saved |-> FALSE, name |-> FileName("", 0), body |-> <<>>]
       ELSE IF \E k \in DOMAIN header : header[k] \in BinaryTypes
            THEN [saved |-> TRUE, name |-> NameOf(header, idx), body |-> body]
            ELSE [saved |-> FALSE, name |-> FileName("", 0), body |-> <<>>]

\* save_mtom_attachments not entered: `saved` is its list, each entry with
\* the position in `parts` it came from.
NoMtom == [pc |-> "idle", i |-> 1, idx |-> 0, saved |-> <<>>]

MtomIdle ==
    /\ resp = NoResponse
    /\ mtom = NoMtom
    /\ out_dir = {}

\* save_mtom_attachments is entered with the response r and an empty out_dir.
MtomInit(r) ==
    /\ resp = r
    /\ mtom = [NoMtom EXCEPT !.pc = "ctype"]
    /\ out_dir = {}

\* None of opg.py's functions is running.
OpgIdle == ExtractIdle /\ RequestIdle /\ MtomIdle

\* No merchant has been synced yet; the first merchant's watermark field
\* holds one of `firsts`.
SyncInit(firsts) ==
    /\ \E first \in firsts :
          userRec = [u \in Users |->
                       [lastbizonylatletoltve |-> IF u = 1 THEN first ELSE Unset,
                        lastbizonylatszinkron |-> 0]]
    /\ remote = [u \in Users |-> [min |-> FirstFile, max |-> FirstFile]]
    /\ revenues = <<>>
    /\ run = Idle
    /\ batch = NoBatch
    /\ runs = 0
    /\ crashes = 0
    /\ aborted = [u \in Users |-> FALSE]
    /\ pending = [u \in Users |-> {}]

\* opg.py as it is in the repository, no request being served.
SwapInit ==
    /\ opg_path = Original
    /\ backup_path = Absent
    /\ thread = [u \in Users |-> NoThread]
    /\ sent = {}

\* aggregate_daily_revenues is entered with the list `files`.
AggInit(files) ==
    /\ xml_paths = files
    /\ agg = [pc |-> IF files = <<>> THEN "idle" ELSE "loop", i |-> 1, malformed |-> {}]
    /\ xml_doc = NoDoc
    /\ file_data = NoData

\* The first merchant's watermark field may hold text that is no number, or
\* a number the service's window does not reach yet.
Init ==
    /\ SyncInit({Unset, Garbage, str(MaxFile)})
    /\ SwapInit
    /\ AggInit(<<>>)
    /\ OpgIdle

\* The fields of the user dict sync_user needs; exchangeKey is read too.
\* `blank` names the one of them that is empty or missing, if any.
RequiredCreds == {"navlogin", "navpassword", "signKey", "taxNumber"}
UserFields == {"apnumber"} \cup RequiredCreds \cup {"exchangeKey"}

\* Entry of sync_user(user, ...) with the user dict the caller read.
Enter(caller, u, last, blank) ==
    [Idle EXCEPT !.pc = "check", !.caller = caller, !.user_id = u,
                 !.lastbizonylatletoltve = last, !.blank = blank,
                 !.rec0 = userRec[u],
                 !.prev_written = pending[u]]

\* web_api.sync_single_user: get_user_by_id, then sync_user.
sync_single_user(u) ==
    /\ run.pc = "idle"
    /\ batch.pc \in {"idle", "returned"}
    /\ runs < MaxRuns
    /\ \E blank \in {"none"} \cup UserFields :
           run' = Enter("single", u, userRec[u].lastbizonylatletoltve, blank)
    /\ batch' = NoBatch
    /\ runs' = runs + 1
    /\ pending' = [pending EXCEPT ![u] = {}]
    /\ UNCHANGED <<userRec, remote, revenues, crashes, aborted>>
    /\ UNCHANGED restVars

\* ---- sync_user, step by step ----

\* `if not ap_number`
MissingApNumber(blank) == blank = "apnumber"

\* Mutant: only the AP number is checked.
MissingCredentials_Unchecked(blank) == FALSE

\* `if not all(credentials.get(k) for k in required_creds)`
MissingCredentials(blank) == blank \in RequiredCreds

\* The checks of sync_user before its first call: they return a failed
\* result, else the run goes on to the status query. The credential fields
\* are not read again by the steps below.
check_credentials ==
    /\ run.pc = "check"
    /\ run' = IF MissingApNumber(run.blank)
              THEN [run EXCEPT !.pc = "done",
                               !.result = Result(FALSE, "Missing AP number", 0, 0)]
              ELSE IF MissingCredentials(run.blank)
              THEN [run EXCEPT !.pc = "done",
                               !.result = Result(FALSE, "Missing NAV credentials", 0, 0)]
              ELSE [run EXCEPT !.pc = "status", !.blank = "none"]
    /\ UNCHANGED <<userRec, remote, revenues, batch, runs, crashes, aborted, pending>>
    /\ UNCHANGED restVars

\* Mutant: the handler swallows the error and the run goes on.
OnException_Swallowed(r) ==
    [r EXCEPT !.pc = "upload"]

\* Mutant: the failure result reports the records created so far.
OnException_Partial(r) ==
    [r EXCEPT !.pc = "done",
              !.result = Result(FALSE, "Error", 0, r.revenues_created)]

\* `except Exception as e: return {'success': False, ...}`
OnException(r) ==
    [r EXCEPT !.pc = "done", !.result = Result(FALSE, "Error", 0, 0)]

\* Mutant: the range starts at the watermark itself.
StartFile_NoIncrement(last_synced_file, status) ==
    IF Len(last_synced_file) > 0
    THEN IF IsDecimal(last_synced_file)
         THEN int(last_synced_file)
         ELSE status.min
    ELSE status.min

\* "Determine which files to download": the first file of the range.
StartFile(last_synced_file, status) ==
    IF Len(last_synced_file) > 0
    THEN IF IsDecimal(last_synced_file)
         THEN int(last_synced_file) + 1
         ELSE status.min
    ELSE status.min

EndFile(status) == status.max

\* Mutant: the empty-range check is missing.
NoNewFiles_Never(start_file, end_file) == FALSE

\* `if start_file > end_file`
NoNewFiles(start_file, end_file) == start_file > end_file

\* What follows get_nav_status in sync_user, given what it returned.
AfterStatus(r, status) ==
    IF StatusMissing(status)
    THEN [r EXCEPT !.pc = "done", !.status = status,
                   !.result = Result(FALSE, "Failed to query NAV status", 0, 0)]
    ELSE LET s == StartFile(r.lastbizonylatletoltve, status)
             e == EndFile(status)
         IN IF NoNewFiles(s, e)
            THEN [r EXCEPT !.pc = "done", !.status = status,
                           !.start_file = s, !.end_file = e,
                           !.result = Result(TRUE, "No new files to sync", 0, 0)]
            ELSE [r EXCEPT !.pc = "download", !.status = status,
                           !.start_file = s, !.end_file = e]

\* get_nav_status: the status query either yields the retained window or
\* nothing (non-zero exit, timeout, exception, unparsable output).
get_nav_status ==
    /\ run.pc = "status"
    /\ \E status \in {NoStatus, StatusOf(run.user_id)} :
           run' = AfterStatus(run, status)
    /\ UNCHANGED <<userRec, remote, revenues, batch, runs, crashes, aborted, pending>>
    /\ UNCHANGED restVars

\* The file range opg.py's download-all command asks the service for: the
\* window of its own status query. download_nav_files takes start_file and
\* end_file and passes neither on.
DownloadAllRange(start_file, end_file, status) ==
    [start |-> status.min, end |-> status.max]

\* Outcomes of the opg.py subprocess as download_nav_files sees them.
\*   raise          non-zero exit code or timeout: download_nav_files raises
\*   http_status    non-200 to download-all's status query: prints, exit code 0
\*   http_file      non-200 to the file-range query: prints, exit code 0
\*   no_attachment  the response carried no attachment: prints, exit code 0
\*   ok             attachments saved, unzipped, extracted
DownloadOutcomes == {"raise", "http_status", "http_file", "no_attachment", "ok"}

\* What follows download_nav_files in sync_user, given the documents
\* unpacked, the XML files extracted from them and those among these whose
\* name aggregate_daily_revenues can parse.
AfterDownload(r, dl, request, p7b_files, xml_files, file_revenues) ==
    IF xml_files = {}
    THEN [r EXCEPT !.pc = "done", !.dl = dl, !.request = request,
                   !.p7b_files = p7b_files,
                   !.result = Result(TRUE, "No XML files extracted", 0, 0)]
    ELSE [r EXCEPT !.pc = IF file_revenues = {} THEN "upload" ELSE "persist",
                   !.dl = dl, !.request = request,
                   !.p7b_files = p7b_files,
                   !.xml_files = xml_files,
                   !.file_revenues = file_revenues,
                   !.todo = sorted(file_revenues)]

download_nav_files ==
    /\ run.pc = "download"
    /\ \E dl \in DownloadOutcomes :
         LET status == StatusOf(run.user_id)
             request == DownloadAllRange(run.start_file, run.end_file, status)
             served == {f \in request.start..request.end :
                          status.min <= f /\ f <= status.max}
         IN CASE dl = "raise" ->
                   run' = [OnException(run) EXCEPT !.dl = dl, !.error = "download"]
              [] dl = "http_status" ->
                   run' = AfterDownload(run, dl, run.request, {}, {}, {})
              [] dl \in {"http_file", "no_attachment"} ->
                   run' = AfterDownload(run, dl, request, {}, {}, {})
              [] OTHER ->
                   \E xml_files \in SUBSET served :
                     \E file_revenues \in SUBSET xml_files :
                       run' = AfterDownload(run, dl, request, served,
                                            xml_files, file_revenues)
    /\ UNCHANGED <<userRec, remote, revenues, batch, runs, crashes, aborted, pending>>
    /\ UNCHANGED restVars

\* Mutant: a record whose user and file number are already stored is not created again.
CreateRecord_Dedup(revs, user_id, file_number) ==
    LET rec == [user_opginvoice |-> user_id, fajl_sorszama |-> str(file_number)]
    IN IF \E i \in 1..Len(revs) : revs[i] = rec THEN revs ELSE Append(revs, rec)

\* AdaloClient.create_daily_revenue: POST one record to the revenues collection.
CreateRecord(revs, user_id, file_number) ==
    Append(revs, [user_opginvoice |-> user_id, fajl_sorszama |-> str(file_number)])

\* A run that stops after a create and before the watermark write.
Stopped(r) == r.written # <<>> /\ ~r.updated
Range(s) == {s[i] : i \in 1..Len(s)}

\* One iteration of `for file_number, data in sorted(file_revenues.items())`.
create_daily_revenue ==
    /\ run.pc = "persist"
    /\ run.todo # <<>>
    /\ \/ /\ revenues' = CreateRecord(revenues, run.user_id, Head(run.todo))
          /\ run' = [run EXCEPT !.todo = Tail(run.todo),
                                !.written = Append(run.written, Head(run.todo)),
                                !.revenues_created = run.revenues_created + 1,
                                !.pc = IF Tail(run.todo) = <<>> THEN "upload" ELSE "persist"]
          /\ UNCHANGED <<aborted, pending>>
       \/ /\ run' = [OnException(run) EXCEPT !.error = "create"]
          /\ aborted' = [aborted EXCEPT ![run.user_id] = @ \/ Stopped(run)]
          /\ pending' = [pending EXCEPT ![run.user_id] =
                            IF Stopped(run) THEN Range(run.written) ELSE @]
          /\ UNCHANGED revenues
    /\ UNCHANGED <<userRec, remote, batch, runs, crashes>>
    /\ UNCHANGED restVars

\* "Upload XML files to SFTP (optional, only if configured)": every outcome
\* is caught inside sync_user.
UploadOutcomes == {"skipped", "ok", "partial", "error"}

\* sftp_result after the step, for n files of which k were uploaded:
\*   skipped  the SFTP_* variables are not all set: sftp_result stays None
\*   ok       every file uploaded
\*   partial  the connection failed (k = 0) or some uploads failed
\*   error    an exception, caught: {'success': False, 'uploaded': 0, ...}
SftpResult(o, n, k) ==
    CASE o = "skipped" -> NoSftpResult
      [] o = "ok"      -> [success |-> TRUE, uploaded |-> n]
      [] o = "partial" -> [success |-> FALSE, uploaded |-> k]
      [] OTHER         -> [success |-> FALSE, uploaded |-> 0]

\* Mutant: an upload that did not succeed raises into sync_user's handler.
AfterUpload_Fatal(r, sftp_result) ==
    IF sftp_result # NoSftpResult /\ ~sftp_result.success
    THEN OnException(r)
    ELSE [r EXCEPT !.pc = "update", !.sftp_result = sftp_result]

\* The run goes on to the watermark write whatever the upload gave.
AfterUpload(r, sftp_result) ==
    [r EXCEPT !.pc = "update", !.sftp_result = sftp_result]

upload_files_to_sftp ==
    /\ run.pc = "upload"
    /\ \E o \in UploadOutcomes :
         LET n == Cardinality(run.xml_files)
         IN \E k \in 0..(n - 1) :
               /\ o # "partial" => k = 0
               /\ run' = AfterUpload(run, SftpResult(o, n, k))
    /\ UNCHANGED <<userRec, remote, revenues, batch, runs, crashes, aborted, pending>>
    /\ UNCHANGED restVars

\* AdaloClient.update_user_sync: PUT both sync fields of the user.
UpdateUserSync(rec, last_sync_at, last_file_number) ==
    [rec EXCEPT !.lastbizonylatszinkron = last_sync_at,
                !.lastbizonylatletoltve = str(last_file_number)]

FilesSynced(start_file, end_file) == end_file - start_file + 1

\* The value sync_user passes as last_file_number.
LastFileNumber(r) == r.end_file

update_user_sync ==
    /\ run.pc = "update"
    /\ \/ /\ userRec' = [userRec EXCEPT ![run.user_id] =
                            UpdateUserSync(@, runs, LastFileNumber(run))]
          /\ run' = [run EXCEPT !.pc = "done", !.updated = TRUE,
                                !.result = Synced(FilesSynced(run.start_file, run.end_file),
                                                  run.revenues_created,
                                                  run.sftp_result)]
          /\ UNCHANGED <<aborted, pending>>
       \/ /\ run' = [OnException(run) EXCEPT !.error = "update"]
          /\ aborted' = [aborted EXCEPT ![run.user_id] = @ \/ Stopped(run)]
          /\ pending' = [pending EXCEPT ![run.user_id] =
                            IF Stopped(run) THEN Range(run.written) ELSE @]
          /\ UNCHANGED userRec
    /\ UNCHANGED <<remote, revenues, batch, runs, crashes>>
    /\ UNCHANGED restVars

\* ---- sync_all_users ----

\* Mutant: the loop ends at the first failed merchant.
Collect_BreakOnFailure(b, user_id, result) ==
    [b EXCEPT !.successful = IF result.success THEN @ + 1 ELSE @,
              !.failed = IF result.success THEN @ ELSE @ + 1,
              !.user_results = Append(@, [user_id |-> user_id,
                                          success |-> result.success,
                                          message |-> result.message,
                                          files_synced |-> result.files_synced,
                                          revenues_created |-> result.revenues_created]),
              !.idx = IF result.success THEN @ + 1 ELSE Len(b.users_to_sync) + 1]

\* The loop body after sync_user returned: count, append, go on.
Collect(b, user_id, result) ==
    [b EXCEPT !.successful = IF result.success THEN @ + 1 ELSE @,
              !.failed = IF result.success THEN @ ELSE @ + 1,
              !.user_results = Append(@, [user_id |-> user_id,
                                          success |-> result.success,
                                          message |-> result.message,
                                          files_synced |-> result.files_synced,
                                          revenues_created |-> result.revenues_created]),
              !.idx = @ + 1]

\* get_users_to_sync: the users due for a sync whose AP number and required
\* credentials are all set, in collection order, each as read at that moment.
UsersToSync(S) ==
    LET ids == InOrder(S)
    IN [i \in 1..Len(ids) |->
          [id |-> ids[i],
           lastbizonylatletoltve |-> userRec[ids[i]].lastbizonylatletoltve]]

sync_all_users_begin ==
    /\ run.pc = "idle"
    /\ batch.pc \in {"idle", "returned"}
    /\ \E S \in SUBSET Users :
         /\ runs + Cardinality(S) <= MaxRuns
         /\ batch' = [NoBatch EXCEPT !.pc = "loop",
                                     !.users_to_sync = UsersToSync(S),
                                     !.idx = 1,
                                     !.total_users = Cardinality(S)]
    /\ UNCHANGED <<userRec, remote, revenues, run, runs, crashes, aborted, pending>>
    /\ UNCHANGED restVars

\* `result = sync_user(user, adalo_client, current_year)`: the call.
sync_all_users_call ==
    /\ batch.pc = "loop"
    /\ run.pc = "idle"
    /\ batch.idx <= Len(batch.users_to_sync)
    /\ LET user == batch.users_to_sync[batch.idx]
       IN /\ \E blank \in {"none", "exchangeKey"} :
                run' = Enter("batch", user.id, user.lastbizonylatletoltve, blank)
          /\ pending' = [pending EXCEPT ![user.id] = {}]
    /\ runs' = runs + 1
    /\ UNCHANGED <<userRec, remote, revenues, batch, crashes, aborted>>
    /\ UNCHANGED restVars

\* sync_user returns its result to its caller.
sync_user_return ==
    /\ run.pc = "done"
    /\ run' = Idle
    /\ batch' = IF run.caller = "batch"
                THEN Collect(batch, run.user_id, run.result)
                ELSE batch
    /\ UNCHANGED <<userRec, remote, revenues, runs, crashes, aborted, pending>>
    /\ UNCHANGED restVars

sync_all_users_return ==
    /\ batch.pc = "loop"
    /\ run.pc = "idle"
    /\ batch.idx > Len(batch.users_to_sync)
    /\ batch' = [batch EXCEPT !.pc = "returned"]
    /\ UNCHANGED <<userRec, remote, revenues, run, runs, crashes, aborted, pending>>
    /\ UNCHANGED restVars

\* ---- environment ----

\* The cash register closes another log file.
NavAdvance(u) ==
    /\ remote[u].max < MaxFile
    /\ remote' = [remote EXCEPT ![u].max = @ + 1]
    /\ UNCHANGED <<userRec, revenues, run, batch, runs, crashes, aborted, pending>>
    /\ UNCHANGED restVars

\* The service stops retaining its oldest file.
NavRetire(u) ==
    /\ remote[u].min < remote[u].max
    /\ remote' = [remote EXCEPT ![u].min = @ + 1]
    /\ UNCHANGED <<userRec, revenues, run, batch, runs, crashes, aborted, pending>>
    /\ UNCHANGED restVars

\* The process is killed while a run or a batch is in progress.
Crash ==
    /\ crashes < MaxCrashes
    /\ run.pc # "idle" \/ batch.pc = "loop"
    /\ crashes' = crashes + 1
    /\ run' = Idle
    /\ batch' = NoBatch
    /\ aborted' = IF run.pc # "idle"
                  THEN [aborted EXCEPT ![run.user_id] = @ \/ Stopped(run)]
                  ELSE aborted
    /\ pending' = IF run.pc # "idle" /\ Stopped(run)
                  THEN [pending EXCEPT ![run.user_id] = Range(run.written)]
                  ELSE pending
    /\ UNCHANGED <<userRec, remote, revenues, runs>>
    /\ UNCHANGED restVars

Next ==
    \/ \E u \in Users : sync_single_user(u)
    \/ check_credentials
    \/ get_nav_status
    \/ download_nav_files
    \/ create_daily_revenue
    \/ upload_files_to_sftp
    \/ update_user_sync
    \/ sync_user_return
    \/ sync_all_users_begin
    \/ sync_all_users_call
    \/ sync_all_users_return
    \/ \E u \in Users : NavAdvance(u)
    \/ \E u \in Users : NavRetire(u)
    \/ Crash

Spec == Init /\ [][Next]_vars

\* ---- the batch run as scheduled by the code ----

\* A batch run left to itself: no other trigger, no process kill.
NextBatch ==
    \/ check_credentials
    \/ get_nav_status
    \/ download_nav_files
    \/ create_daily_revenue
    \/ upload_files_to_sftp
    \/ update_user_sync
    \/ sync_user_return
    \/ sync_all_users_begin
    \/ sync_all_users_call
    \/ sync_all_users_return
    \/ \E u \in Users : NavAdvance(u)
    \/ \E u \in Users : NavRetire(u)

\* The steps that are bound to end: the two opg.py subprocesses run under
\* `timeout=30` and `timeout=180`, the FTP connection under `timeout=30`,
\* and the loop of sync_all_users is local code. AdaloClient._request calls
\* requests.request with no timeout, so nothing bounds the wait of
\* create_daily_revenue and update_user_sync for the store's answer.
Terminating ==
    /\ WF_vars(check_credentials)
    /\ WF_vars(get_nav_status)
    /\ WF_vars(download_nav_files)
    /\ WF_vars(upload_files_to_sftp)
    /\ WF_vars(sync_user_return)
    /\ WF_vars(sync_all_users_call)
    /\ WF_vars(sync_all_users_return)

SpecBatch == Init /\ [][NextBatch]_vars /\ Terminating

\* ---- get_nav_status and download_nav_files, statement by statement ----

\* Two overlapping trigger requests of web_api.sync_single_user: thread u
\* runs sync_user for merchant u, which calls get_nav_status and then,
\* when there are files to fetch, download_nav_files.
sync_user_thread(u) ==
    /\ thread[u].pc = "idle"
    /\ thread' = [thread EXCEPT ![u] = [NoThread EXCEPT !.pc = "read", !.call = "status"]]
    /\ UNCHANGED <<opg_path, backup_path, sent>>
    /\ UNCHANGED <<syncVars, aggVars, opgVars>>

\* `opg_content = opg_path.read_text()`, which may raise: then the handler
\* (of get_nav_status) and the finally block follow.
read_text(u) ==
    /\ thread[u].pc = "read"
    /\ \/ thread' = [thread EXCEPT ![u].pc = "backup", ![u].opg_content = opg_path]
       \/ thread' = [thread EXCEPT ![u].pc = "exists", ![u].outcome = "exception"]
    /\ UNCHANGED <<opg_path, backup_path, sent>>
    /\ UNCHANGED <<syncVars, aggVars, opgVars>>

\* `backup_path.write_text(opg_content)`
write_backup(u) ==
    /\ thread[u].pc = "backup"
    /\ backup_path' = thread[u].opg_content
    /\ thread' = [thread EXCEPT ![u].pc = "modify"]
    /\ UNCHANGED <<opg_path, sent>>
    /\ UNCHANGED <<syncVars, aggVars, opgVars>>

\* `modified.replace(f'TECH_LOGIN      = "{opg.TECH_LOGIN}"', ...)`: the text
\* looked for is the assignment of the value the imported module opg has,
\* the original one; a content that holds other values is left as it is.
Replace(content, credentials) ==
    IF content = Original THEN credentials ELSE content

\* `opg_path.write_text(modified)`
write_modified(u) ==
    /\ thread[u].pc = "modify"
    /\ opg_path' = Replace(thread[u].opg_content, u)
    /\ thread' = [thread EXCEPT ![u].pc = "run"]
    /\ UNCHANGED <<backup_path, sent>>
    /\ UNCHANGED <<syncVars, aggVars, opgVars>>

\* How subprocess.run ends:
\*   ok         exit code 0
\*   nonzero    another exit code: get_nav_status returns None,
\*              download_nav_files raises
\*   timeout    TimeoutExpired: caught in get_nav_status, not in
\*              download_nav_files
\*   exception  the process could not be started
RunOutcomes == {"ok", "nonzero", "timeout", "exception"}

\* `subprocess.run(['python3', str(opg_path), ...])`: the interpreter loads
\* opg.py as it is now and signs its requests with the constants found.
subprocess_run(u) ==
    /\ thread[u].pc = "run"
    /\ \E o \in RunOutcomes :
         /\ sent' = IF o = "exception" THEN sent
                    ELSE sent \cup {[call |-> thread[u].call, user |-> u,
                                     credentials |-> opg_path]}
         /\ thread' = [thread EXCEPT ![u].pc = "exists", ![u].outcome = o]
    /\ UNCHANGED <<opg_path, backup_path>>
    /\ UNCHANGED <<syncVars, aggVars, opgVars>>

\* What the thread does once the call is over: after get_nav_status the
\* download when there are files to fetch, else the end of sync_user.
AfterCall(th, raised) ==
    IF th.call = "status" /\ th.outcome = "ok" /\ ~raised
    THEN {[th EXCEPT !.pc = "read", !.call = "download", !.outcome = "none"],
          [th EXCEPT !.pc = "done"]}
    ELSE {[th EXCEPT !.pc = "done",
                     !.raised = raised \/ (th.call = "download" /\ th.outcome # "ok")]}

\* Mutant: there is no finally block.
backup_exists_Skipped(u) ==
    /\ thread[u].pc = "exists"
    /\ \E th \in AfterCall(thread[u], FALSE) : thread' = [thread EXCEPT ![u] = th]
    /\ UNCHANGED <<opg_path, backup_path, sent>>
    /\ UNCHANGED <<syncVars, aggVars, opgVars>>

\* `finally: if backup_path.exists():`
backup_exists(u) ==
    /\ thread[u].pc = "exists"
    /\ IF backup_path # Absent
       THEN thread' = [thread EXCEPT ![u].pc = "restore_read"]
       ELSE \E th \in AfterCall(thread[u], FALSE) : thread' = [thread EXCEPT ![u] = th]
    /\ UNCHANGED <<opg_path, backup_path, sent>>
    /\ UNCHANGED <<syncVars, aggVars, opgVars>>

\* `backup_path.read_text()`: FileNotFoundError when the file is gone.
restore_read(u) ==
    /\ thread[u].pc = "restore_read"
    /\ IF backup_path # Absent
       THEN thread' = [thread EXCEPT ![u].pc = "restore_write",
                                     ![u].restored = backup_path]
       ELSE \E th \in AfterCall(thread[u], TRUE) : thread' = [thread EXCEPT ![u] = th]
    /\ UNCHANGED <<opg_path, backup_path, sent>>
    /\ UNCHANGED <<syncVars, aggVars, opgVars>>

\* `opg_path.write_text(...)` of the restore.
restore_write(u) ==
    /\ thread[u].pc = "restore_write"
    /\ opg_path' = thread[u].restored
    /\ thread' = [thread EXCEPT ![u].pc = "unlink"]
    /\ UNCHANGED <<backup_path, sent>>
    /\ UNCHANGED <<syncVars, aggVars, opgVars>>

\* `backup_path.unlink()`: FileNotFoundError when the file is gone.
backup_unlink(u) ==
    /\ thread[u].pc = "unlink"
    /\ backup_path' = Absent
    /\ \E th \in AfterCall(thread[u], backup_path = Absent) :
           thread' = [thread EXCEPT ![u] = th]
    /\ UNCHANGED <<opg_path, sent>>
    /\ UNCHANGED <<syncVars, aggVars, opgVars>>

NextSwap ==
    \/ \E u \in Users : sync_user_thread(u)
    \/ \E u \in Users : read_text(u)
    \/ \E u \in Users : write_backup(u)
    \/ \E u \in Users : write_modified(u)
    \/ \E u \in Users : subprocess_run(u)
    \/ \E u \in Users : backup_exists(u)
    \/ \E u \in Users : restore_read(u)
    \/ \E u \in Users : restore_write(u)
    \/ \E u \in Users : backup_unlink(u)

SpecSwap == Init /\ [][NextSwap]_vars

\* Sequential execution: a thread takes a step only while no other thread
\* is inside sync_user.
Outside(u) == thread[u].pc \in {"idle", "done"}

NextSequential ==
    \E u \in Users :
        /\ \A v \in Users \ {u} : Outside(v)
        /\ \/ sync_user_thread(u)
           \/ read_text(u)
           \/ write_backup(u)
           \/ write_modified(u)
           \/ subprocess_run(u)
           \/ backup_exists(u)
           \/ restore_read(u)
           \/ restore_write(u)
           \/ backup_unlink(u)

SpecSequential == Init /\ [][NextSequential]_vars

\* ---- aggregate_daily_revenues, file by file ----

\* parse_xml_receipts is called for the files whose name was accepted.
Parsed(name) == name.match /\ ValidDate(DatePart(name.timestamp))

\* One iteration of the loop, on a file of any content. An exception of
\* parse_xml_receipts would leave the function through the loop.
aggregate_file ==
    /\ agg.pc = "loop"
    /\ agg.i <= Len(xml_paths)
    /\ \E doc \in Docs :
         LET name == xml_paths[agg.i]
             raised == Parsed(name) /\ ParseXmlReceipts(doc, TargetYear).raised
         IN /\ xml_doc' = doc
            /\ file_data' = IF raised THEN file_data
                             ELSE AggregateFile(file_data, name, doc, TargetYear)
            /\ agg' = [agg EXCEPT !.pc = IF raised THEN "raised" ELSE "loop",
                                   !.i = @ + 1,
                                   !.malformed = IF doc.wellformed THEN @
                                                 ELSE @ \cup {agg.i}]
    /\ UNCHANGED xml_paths
    /\ UNCHANGED <<syncVars, swapVars, opgVars>>

\* `return file_data`
aggregate_return ==
    /\ agg.pc = "loop"
    /\ agg.i > Len(xml_paths)
    /\ agg' = [agg EXCEPT !.pc = "returned"]
    /\ UNCHANGED <<xml_paths, xml_doc, file_data>>
    /\ UNCHANGED <<syncVars, swapVars, opgVars>>

NextAgg ==
    \/ aggregate_file
    \/ aggregate_return

\* aggregate_daily_revenues on every list of files.
InitAgg ==
    /\ SyncInit({Unset})
    /\ SwapInit
    /\ \E files \in XmlFileLists : AggInit(files)
    /\ OpgIdle

SpecAgg == InitAgg /\ [][NextAgg]_vars

\* ---- opg.extract_p7b_to_xml, strategy by strategy ----

\* `if not p7b_path.exists(): return False`
p7b_exists ==
    /\ extraction.pc = "exists"
    /\ extraction' = IF p7b_path.exists
                     THEN [extraction EXCEPT !.pc = "openssl"]
                     ELSE [extraction EXCEPT !.pc = "returned", !.returned = "False"]
    /\ UNCHANGED <<p7b_path, output_path>>
    /\ UNCHANGED <<syncVars, swapVars, aggVars, requestVars, mtomVars>>

\* `xml_content = try_openssl_cms(p7b_path); method = "OpenSSL"` and the
\* test that follows.
try_openssl_cms ==
    /\ extraction.pc = "openssl"
    /\ LET xml_content == TryOpensslCms(p7b_path)
       IN extraction' = [extraction EXCEPT
                            !.xml_content = xml_content,
                            !.method = "OpenSSL",
                            !.calls = Append(@, "OpenSSL"),
                            !.pc = IF NeedsFallback(xml_content)
                                   THEN "regex" ELSE "write"]
    /\ UNCHANGED <<p7b_path, output_path>>
    /\ UNCHANGED <<syncVars, swapVars, aggVars, requestVars, mtomVars>>

\* `xml_content = extract_xml_from_binary(p7b_path); method = "Regex"` and
\* `if not xml_content: return False`.
extract_xml_from_binary ==
    /\ extraction.pc = "regex"
    /\ LET xml_content == ExtractXmlFromBinary(p7b_path)
       IN extraction' = [extraction EXCEPT
                            !.xml_content = xml_content,
                            !.method = "Regex",
                            !.calls = Append(@, "Regex"),
                            !.pc = IF xml_content = NoContent
                                   THEN "returned" ELSE "write",
                            !.returned = IF xml_content = NoContent
                                         THEN "False" ELSE @]
    /\ UNCHANGED <<p7b_path, output_path>>
    /\ UNCHANGED <<syncVars, swapVars, aggVars, requestVars, mtomVars>>

\* `output_path.write_text(xml_content, encoding='utf-8'); return True`
write_text ==
    /\ extraction.pc = "write"
    /\ output_path' = extraction.xml_content
    /\ extraction' = [extraction EXCEPT !.pc = "returned", !.returned = "True"]
    /\ UNCHANGED p7b_path
    /\ UNCHANGED <<syncVars, swapVars, aggVars, requestVars, mtomVars>>

NextExtract ==
    \/ p7b_exists
    \/ try_openssl_cms
    \/ extract_xml_from_binary
    \/ write_text

\* extract_p7b_to_xml on every kind of container.
InitExtract ==
    /\ SyncInit({Unset})
    /\ SwapInit
    /\ AggInit(<<>>)
    /\ \E p \in P7bFiles : ExtractInit(p)
    /\ RequestIdle
    /\ MtomIdle

SpecExtract == InitExtract /\ [][NextExtract]_vars

\* ---- opg.py main: the commands and the requests they build ----

\* The requests a command builds at most.
Needed(c) == IF c.cmd = "download-all" THEN 2 ELSE 1

\* main is entered with a command line.
main ==
    /\ command.pc = "idle"
    /\ \E c \in Commands :
         /\ Len(built) + Needed(c) <= MaxRequests
         /\ command' = [cmd |-> c.cmd, use_exchange_key |-> c.use_exchange_key,
                        pc |-> IF c.cmd = "files" THEN "file" ELSE "status"]
    /\ UNCHANGED <<cred, built>>
    /\ UNCHANGED <<syncVars, swapVars, aggVars, extractVars, mtomVars>>

\* What main has built: the command line, the clock and the document.
Built(c, instant, xml) ==
    [cmd |-> c.cmd, use_exchange_key |-> c.use_exchange_key,
     instant |-> instant, xml |-> xml]

\* `status`, and step 1 of `download-all`: build_status_xml with the
\* command's flag, then post_xml; download-all goes on to the files if the
\* answer gave a status.
status_request ==
    /\ command.pc = "status"
    /\ \E request_id \in RequestIds, instant \in Instants :
         LET xml == build_status_xml(cred, request_id, now_utc_compact(instant),
                                     command.use_exchange_key)
         IN /\ built' = Append(built, Built(command, instant, xml))
            /\ \E answered \in BOOLEAN :
                 command' = IF command.cmd = "download-all" /\ ~xml.user.raised
                               /\ answered
                            THEN [command EXCEPT !.pc = "file"]
                            ELSE NoCommand
    /\ UNCHANGED cred
    /\ UNCHANGED <<syncVars, swapVars, aggVars, extractVars, mtomVars>>

\* `files`, and step 2 of `download-all`: build_file_xml, then post_xml.
file_request ==
    /\ command.pc = "file"
    /\ \E request_id \in RequestIds, instant \in Instants :
         LET xml == build_file_xml(cred, request_id, now_utc_compact(instant))
         IN built' = Append(built, Built(command, instant, xml))
    /\ command' = NoCommand
    /\ UNCHANGED cred
    /\ UNCHANGED <<syncVars, swapVars, aggVars, extractVars, mtomVars>>

NextRequest ==
    \/ main
    \/ status_request
    \/ file_request

\* The commands of opg.py under every setting of its constants.
InitRequest ==
    /\ SyncInit({Unset})
    /\ SwapInit
    /\ AggInit(<<>>)
    /\ ExtractIdle
    /\ \E c \in Creds : RequestInit(c)
    /\ MtomIdle

SpecRequest == InitRequest /\ [][NextRequest]_vars

\* ---- opg.save_mtom_attachments, part by part ----

\* The Content-Type test and the boundary search: response.xml is written
\* and [] returned, or RuntimeError raised, or the body split.
split_parts ==
    /\ mtom.pc = "ctype"
    /\ CASE resp.ctype = "text/xml" ->
              /\ out_dir' = out_dir \cup {[stem |-> "response", idx |-> 0, suffix |-> ".xml"]}
              /\ mtom' = [mtom EXCEPT !.pc = "returned"]
         [] resp.ctype = "multipart/related" ->
              /\ mtom' = [mtom EXCEPT !.pc = "raised"]
              /\ UNCHANGED out_dir
         [] OTHER ->
              /\ mtom' = [mtom EXCEPT !.pc = "loop"]
              /\ UNCHANGED out_dir
    /\ UNCHANGED resp
    /\ UNCHANGED <<syncVars, swapVars, aggVars, extractVars, requestVars>>

\* One iteration of `for part in parts`.
save_part ==
    /\ mtom.pc = "loop"
    /\ mtom.i <= Len(resp.parts)
    /\ LET a == Attachment(resp.parts[mtom.i], mtom.idx)
       IN IF a.saved
          THEN /\ out_dir' = out_dir \cup {a.name}
               /\ mtom' = [mtom EXCEPT
                              !.i = @ + 1, !.idx = @ + 1,
                              !.saved = Append(@, [part |-> mtom.i,
                                                   name |-> a.name,
                                                   body |-> a.body])]
          ELSE /\ mtom' = [mtom EXCEPT !.i = @ + 1]
               /\ UNCHANGED out_dir
    /\ UNCHANGED resp
    /\ UNCHANGED <<syncVars, swapVars, aggVars, extractVars, requestVars>>

\* `return saved`
return_saved ==
    /\ mtom.pc = "loop"
    /\ mtom.i > Len(resp.parts)
    /\ mtom' = [mtom EXCEPT !.pc = "returned"]
    /\ UNCHANGED <<resp, out_dir>>
    /\ UNCHANGED <<syncVars, swapVars, aggVars, extractVars, requestVars>>

NextMtom ==
    \/ split_parts
    \/ save_part
    \/ return_saved

\* save_mtom_attachments on every response.
InitMtom ==
    /\ SyncInit({Unset})
    /\ SwapInit
    /\ AggInit(<<>>)
    /\ ExtractIdle
    /\ RequestIdle
    /\ \E r \in Responses : MtomInit(r)

SpecMtom == InitMtom /\ [][NextMtom]_vars

\* ---- properties ----

\* Number of stored revenue records of user u for file number f.
Count(u, f) ==
    Cardinality({i \in 1..Len(revenues) :
                   revenues[i] = [user_opginvoice |-> u, fajl_sorszama |-> str(f)]})

Running == run.pc # "idle"
Stored(u) == userRec[u].lastbizonylatletoltve

\* C1: the watermark is written only when every create_daily_revenue call of
\* the run has returned without error, and once an aggregate write has failed
\* the merchant's stored watermark is the one from before the run.
C1_WatermarkAfterAllWrites ==
    [][ /\ userRec' # userRec =>
              /\ run.pc = "update"
              /\ run.todo = <<>>
              /\ Range(run.written) = run.file_revenues
              /\ run.error = "none"
              /\ \A u \in Users \ {run.user_id} : userRec'[u] = userRec[u]
        /\ run'.error = "create" =>
              /\ ~run'.updated
              /\ userRec'[run'.user_id] = run'.rec0 ]_vars

\* C1 witness: an aggregate write failed after another had succeeded.
C1_Witness ==
    /\ run.pc = "done"
    /\ run.error = "create"
    /\ run.written # <<>>
    /\ Stored(run.user_id) = run.rec0.lastbizonylatletoltve

\* C2: the files a run fetches and turns into records are those of the range
\* computed from the watermark: none numbered below start_file is asked for,
\* fetched or persisted, so with a watermark w set none numbered <= w.
C2_FetchesOnlyTheRange ==
    (Running /\ run.dl = "ok") =>
        /\ run.request.start >= run.start_file
        /\ \A f \in run.xml_files \cup Range(run.written) :
              /\ f >= run.start_file
              /\ IsDecimal(run.lastbizonylatletoltve)
                    => f > int(run.lastbizonylatletoltve)

\* C3: start = watermark + 1 when a watermark is stored, start = min when
\* none is, and end = max.
C3_RangeComputed ==
    (Running /\ run.status.ok) =>
        /\ \A w \in 0..MaxFile :
              run.lastbizonylatletoltve = str(w) => run.start_file = w + 1
        /\ run.lastbizonylatletoltve = Unset => run.start_file = run.status.min
        /\ run.end_file = run.status.max

\* C3 witness: a run that read the watermark FirstFile and a window reaching beyond it.
C3_Witness ==
    /\ Running
    /\ run.status.ok
    /\ run.lastbizonylatletoltve = str(FirstFile)
    /\ run.start_file = FirstFile + 1
    /\ run.end_file = FirstFile + 1

\* C4: with start > end the run ends at once as a success with zero files and
\* zero records: no download, no aggregate write, no write to the user record.
C4_NoNewFilesIsNoOp ==
    (Running /\ run.status.ok /\ run.start_file > run.end_file) =>
        /\ run.pc = "done"
        /\ run.result = Result(TRUE, "No new files to sync", 0, 0)
        /\ run.dl = "none"
        /\ run.written = <<>>
        /\ ~run.updated
        /\ userRec[run.user_id] = run.rec0

\* C4 witness: a run whose stored watermark is the remote maximum.
C4_Witness ==
    /\ run.pc = "done"
    /\ run.status.ok
    /\ run.start_file = run.end_file + 1
    /\ run.result.success

\* C5: the records of a run are created in strictly ascending file-number
\* order, one per processed file, and the user record is written after the
\* last of them, with the status query's maximum as watermark and the
\* timestamp of the run.
C5_AscendingThenWatermark ==
    Running =>
        LET n == Len(run.written)
            m == Len(revenues)
        IN /\ \A i, j \in 1..n : i < j => run.written[i] < run.written[j]
           /\ n <= m
           /\ \A i \in 1..n :
                 revenues[m - n + i] =
                     [user_opginvoice |-> run.user_id,
                      fajl_sorszama |-> str(run.written[i])]
           /\ ~run.updated => userRec[run.user_id] = run.rec0
           /\ run.updated =>
                 /\ Range(run.written) = run.file_revenues
                 /\ run.revenues_created = Cardinality(run.file_revenues)
                 /\ run.end_file = run.status.max
                 /\ userRec[run.user_id] =
                       [lastbizonylatletoltve |-> str(run.end_file),
                        lastbizonylatszinkron |-> runs]

\* C5 witness: a run that created two records and then wrote the user record.
C5_Witness ==
    /\ run.updated
    /\ Len(run.written) = 2
    /\ Stored(run.user_id) = str(run.end_file)

\* C6: the batch takes the selected merchants once each, in list order,
\* whatever the earlier results; it returns only after the last one, with one
\* entry per merchant and successful + failed = total_users.
C6_BatchProcessesEveryUser ==
    batch.pc \in {"loop", "returned"} =>
        LET n == Len(batch.user_results)
        IN /\ batch.total_users = Len(batch.users_to_sync)
           /\ n = batch.idx - 1
           /\ n <= batch.total_users
           /\ \A i \in 1..n :
                 batch.user_results[i].user_id = batch.users_to_sync[i].id
           /\ \A i, j \in 1..n :
                 i # j => batch.user_results[i].user_id # batch.user_results[j].user_id
           /\ batch.successful =
                 Cardinality({i \in 1..n : batch.user_results[i].success})
           /\ batch.failed =
                 Cardinality({i \in 1..n : ~batch.user_results[i].success})
           /\ (Running /\ run.caller = "batch") =>
                 /\ batch.idx <= batch.total_users
                 /\ run.user_id = batch.users_to_sync[batch.idx].id
           /\ batch.pc = "returned" =>
                 /\ n = batch.total_users
                 /\ batch.successful + batch.failed = batch.total_users

\* C6 witness: a returned batch of two whose first merchant failed.
C6_Witness ==
    /\ batch.pc = "returned"
    /\ batch.total_users = 2
    /\ Len(batch.user_results) = 2
    /\ ~batch.user_results[1].success
    /\ batch.user_results[2].success

\* C7: as long as no run of a merchant stopped between its first aggregate
\* write and its watermark write, the store holds at most one record per
\* file number of that merchant.
C7_OneRecordPerFile ==
    \A u \in Users :
        ~aborted[u] => \A f \in FirstFile..MaxFile : Count(u, f) <= 1

\* C8: after a run stopped between an aggregate write and the watermark
\* write, the next run of that merchant runs from the same watermark, asks
\* again for the files already written that the service still retains,
\* queues every one of them it extracts for creation, and each one it creates
\* is then stored more than once.
C8_RerunCreatesAgain ==
    (Running /\ run.prev_written # {}) =>
        /\ run.dl = "ok" =>
              \A f \in run.prev_written :
                  remote[run.user_id].min <= f
                      => (run.request.start <= f /\ f <= run.request.end)
        /\ \A f \in run.prev_written \cap run.file_revenues :
              f \in Range(run.todo) \cup Range(run.written)
        /\ \A f \in run.prev_written \cap Range(run.written) : Count(run.user_id, f) >= 2

\* C8 witness: the run after a stopped one has created a record again.
C8_Witness ==
    /\ Running
    /\ run.prev_written \cap Range(run.written) # {}
    /\ \E f \in run.prev_written : Count(run.user_id, f) = 2

\* C9: a status query that yields nothing ends the run as a failure, with no
\* download and no store write, and a batch goes on to the next merchant.
\* (A run past its credential check and its status query has queried.)
C9_StatusFailureFailsRun ==
    /\ (Running /\ run.pc \notin {"check", "status"} /\ run.blank = "none"
           /\ ~run.status.ok) =>
          /\ run.pc = "done"
          /\ ~run.result.success
          /\ run.result = Result(FALSE, "Failed to query NAV status", 0, 0)
          /\ run.dl = "none"
          /\ run.written = <<>>
          /\ ~run.updated
          /\ userRec[run.user_id] = run.rec0
    /\ batch.pc = "returned" =>
          \A i \in 1..Len(batch.user_results) :
              batch.user_results[i].message = "Failed to query NAV status"
                  => /\ ~batch.user_results[i].success
                     /\ Len(batch.user_results) = Len(batch.users_to_sync)

\* C9 witness: a returned batch of two whose first merchant's status query failed.
C9_Witness ==
    /\ batch.pc = "returned"
    /\ Len(batch.user_results) = 2
    /\ batch.user_results[1].message = "Failed to query NAV status"

\* C10: a non-200 answer to the file-range query, or to the status query of
\* the download step, ends the run as a failure with nothing written.
C10_Non200FailsRun ==
    (Running /\ run.dl \in {"http_status", "http_file"}) =>
        /\ run.pc = "done"
        /\ ~run.result.success
        /\ run.written = <<>>
        /\ ~run.updated
        /\ userRec[run.user_id] = run.rec0
\* C11: with two merchants' sync_user runs overlapping, every opg.py
\* subprocess started for a merchant signs its status and file requests with
\* that merchant's own credentials.
C11_OwnCredentials ==
    \A r \in sent : r.credentials = r.user
\* C12: every batch run eventually returns its summary: no step of a
\* merchant's run waits forever.
C12_BatchReturns ==
    (batch.pc = "loop") ~> (batch.pc = "returned")
\* The order of the steps of a run.
Rank == [idle |-> 0, check |-> 1, status |-> 2, download |-> 3, persist |-> 4,
         upload |-> 5, update |-> 6, done |-> 7]

\* The step just taken was a failing one: a status query that yielded
\* nothing, a download that raised or was answered with a non-200 status,
\* a store write that raised.
StepFailed ==
    \/ run.pc = "status" /\ run'.pc # "status" /\ ~run'.status.ok
    \/ run.pc = "download" /\ run'.dl \in {"raise", "http_status", "http_file"}
    \/ run.error = "none" /\ run'.error # "none"

\* C13: a run takes its steps in the order status query and range, download
\* with extraction and aggregation, persistence, done, never going back to an
\* earlier one, and a failing step leads directly to a terminal failed result.
C13_StepsInOrder ==
    [][ (run.pc # "idle" /\ run'.pc # "idle") =>
           /\ Rank[run'.pc] >= Rank[run.pc]
           /\ (Rank[run'.pc] = Rank[run.pc] /\ run' # run) =>
                  (run.pc = "persist" /\ Len(run'.todo) < Len(run.todo))
           /\ StepFailed => (run'.pc = "done" /\ ~run'.result.success) ]_vars

\* The keys of sync_user's result that carry its documented values.
ResultKeys == {"success", "message", "files_synced", "revenues_created", "sftp_uploaded"}

\* C14: a document whose extraction failed is skipped, the run goes on with
\* the other documents, and the number of documents that failed extraction
\* is in the run's result.
C14_ExtractionFailuresCounted ==
    (run.pc = "done" /\ run.dl = "ok" /\ run.error = "none"
        /\ run.p7b_files \ run.xml_files # {}) =>
        /\ Range(run.written) \cap (run.p7b_files \ run.xml_files) = {}
        /\ Range(run.written) = run.file_revenues
        /\ run.result.success
        /\ \E k \in DOMAIN run.result \ ResultKeys :
              run.result[k] = Cardinality(run.p7b_files \ run.xml_files)

\* C15: whatever the upload step gives (skipped, failed connection, exception,
\* some files not uploaded), the run goes on to the watermark write with the
\* records already created left as they are, and a run that wrote the
\* watermark returns success True.
C15_UploadNeverFailsTheSync ==
    [][ /\ (run.pc = "upload" /\ run'.pc \notin {"upload", "idle"}) =>
              /\ run'.pc = "update"
              /\ run'.error = "none"
              /\ run'.written = run.written
              /\ UNCHANGED <<userRec, revenues>>
        /\ (run.pc = "update" /\ run'.pc = "done" /\ run'.error = "none") =>
              /\ run'.result.success
              /\ run'.updated
              /\ revenues' = revenues
              /\ userRec'[run.user_id] =
                    [lastbizonylatletoltve |-> str(run.end_file),
                     lastbizonylatszinkron |-> runs] ]_vars

\* C15 witness: a run whose upload did not succeed has written the watermark
\* and returns success True.
C15_Witness ==
    /\ run.pc = "done"
    /\ run.sftp_result # NoSftpResult
    /\ ~run.sftp_result.success
    /\ run.written # <<>>
    /\ run.updated
    /\ run.result.success
    /\ Stored(run.user_id) = str(run.end_file)

\* C16: with the AP number or one of login, password, signing key, tax number
\* blank the run returns a failed result at once: no status query, no
\* download, no store write. A blank exchange key alone lets the run go on
\* to the status query. A batch goes on after a failed result.
C16_BlankCredentialsFailTheRun ==
    [][ /\ (run.pc = "check" /\ run'.pc \notin {"check", "idle"}) =>
              /\ run.blank \in {"apnumber"} \cup RequiredCreds =>
                    /\ run'.pc = "done"
                    /\ ~run'.result.success
                    /\ run'.status = NoStatus
                    /\ run'.dl = "none"
                    /\ run'.written = <<>>
                    /\ ~run'.updated
                    /\ UNCHANGED <<userRec, revenues>>
              /\ run.blank \in {"none", "exchangeKey"} => run'.pc = "status"
        /\ (run.pc = "done" /\ run.caller = "batch" /\ ~run.result.success
               /\ run'.pc = "idle" /\ batch'.pc = "loop") =>
              /\ batch'.idx = batch.idx + 1
              /\ batch'.failed = batch.failed + 1 ]_vars

\* C16 witness: a run entered with a blank signing key has ended as a failure.
C16_Witness ==
    /\ run.pc = "done"
    /\ run.blank = "signKey"
    /\ run.result = Result(FALSE, "Missing NAV credentials", 0, 0)
    /\ run.status = NoStatus
\* ---- properties of the aggregation ----

\* The files the loop has been through, and the latest of them.
Processed == 1..(agg.i - 1)
Latest == xml_paths[agg.i - 1]

\* The receipts of a document that count: timestamp and integer amount
\* present, calendar year y, not cancelled.
Qualifying(doc, y) ==
    {k \in DOMAIN doc.NYN :
        /\ doc.NYN[k].DTS # 0
        /\ doc.NYN[k].DTS \div 10000 = y
        /\ IsDecimal(doc.NYN[k].SUM)
        /\ doc.NYN[k].CNC # "1"}

RECURSIVE SumOf(_, _)
SumOf(doc, K) ==
    IF K = {} THEN 0
    ELSE LET k == CHOOSE x \in K : TRUE
         IN int(doc.NYN[k].SUM) + SumOf(doc, K \ {k})

C18_CountAndTotal ==
    (agg.i > 1 /\ Parsed(Latest)) =>
        LET q == Qualifying(xml_doc, TargetYear)
        IN /\ file_data[Latest.file_number].receipts_count = Cardinality(q)
           /\ file_data[Latest.file_number].total_revenue = SumOf(xml_doc, q)

\* C18 witness: amounts 1000, 2000 cancelled, 3000 give count 2 and total 4000.
C18_Witness ==
    /\ agg.i > 1
    /\ Parsed(Latest)
    /\ xml_doc.NYN = <<[DTS |-> On(TargetYear, 11, 20), SUM |-> str(1000), CNC |-> "0"],
                       [DTS |-> On(TargetYear, 11, 20), SUM |-> str(2000), CNC |-> "1"],
                       [DTS |-> On(TargetYear, 11, 20), SUM |-> str(3000), CNC |-> "0"]>>
    /\ file_data[Latest.file_number].receipts_count = 2
    /\ file_data[Latest.file_number].total_revenue = 4000

\* The receipts of a sequence of elements that are not cancelled, of any year.
RECURSIVE NotCancelled(_)
NotCancelled(nyn) ==
    IF nyn = <<>> THEN [count |-> 0, total |-> 0]
    ELSE LET e == Head(nyn)
             rest == NotCancelled(Tail(nyn))
         IN IF e.DTS # 0 /\ IsDecimal(e.SUM) /\ e.CNC # "1"
            THEN [count |-> rest.count + 1, total |-> rest.total + int(e.SUM)]
            ELSE rest

InTargetYear(e) == e.DTS = 0 \/ e.DTS \div 10000 = TargetYear

\* C19: the receipts of another year than the target year leave the file's
\* count and total as they are without them, whatever their amount and
\* flag, and the file has its record all the same.
C19_OtherYearExcluded ==
    (agg.i > 1 /\ Parsed(Latest)) =>
        LET kept == NotCancelled(SelectSeq(xml_doc.NYN, InTargetYear))
        IN /\ Latest.file_number \in DOMAIN file_data
           /\ file_data[Latest.file_number].receipts_count = kept.count
           /\ file_data[Latest.file_number].total_revenue = kept.total

\* C19 witness: a file with receipts of the year before only, one of them
\* not cancelled, has a record with count 0.
C19_Witness ==
    /\ agg.i > 1
    /\ Parsed(Latest)
    /\ xml_doc.NYN # <<>>
    /\ \A k \in DOMAIN xml_doc.NYN : xml_doc.NYN[k].DTS \div 10000 = TargetYear - 1
    /\ \E k \in DOMAIN xml_doc.NYN : xml_doc.NYN[k].CNC = "0"
    /\ file_data[Latest.file_number].receipts_count = 0
    /\ file_data[Latest.file_number].total_revenue = 0

\* The record of a file without counted receipts.
ZeroRecord(name) ==
    [file_number |-> name.file_number, date |-> name.timestamp.date,
     receipts_count |-> 0, total_revenue |-> 0]

\* C20: a malformed document gives an empty receipt list and no exception:
\* the loop goes through every file of the list, the malformed file (its
\* name being accepted) has its zero record, and the files after it are
\* aggregated as ever.
C20_MalformedIsNotFatal ==
    /\ agg.pc # "raised"
    /\ agg.pc = "returned" => agg.i = Len(xml_paths) + 1
    /\ \A j \in agg.malformed :
          Parsed(xml_paths[j]) =>
              /\ xml_paths[j].file_number \in DOMAIN file_data
              /\ file_data[xml_paths[j].file_number] = ZeroRecord(xml_paths[j])
    /\ (agg.i > 1 /\ ~xml_doc.wellformed) =>
          ParseXmlReceipts(xml_doc, TargetYear) = [raised |-> FALSE, receipts |-> <<>>]
    /\ (agg.i > 1 /\ agg.malformed # {} /\ xml_doc.wellformed /\ Parsed(Latest)) =>
          /\ Latest.file_number \in DOMAIN file_data
          /\ file_data[Latest.file_number].receipts_count =
                Cardinality(Qualifying(xml_doc, TargetYear))

\* C20 witness: the first of two files was malformed and has its zero
\* record, the second has its two receipts counted, the function returned.
C20_Witness ==
    /\ agg.pc = "returned"
    /\ Len(xml_paths) = 2
    /\ agg.malformed = {1}
    /\ Parsed(xml_paths[1])
    /\ Parsed(xml_paths[2])
    /\ file_data[xml_paths[1].file_number] = ZeroRecord(xml_paths[1])
    /\ file_data[xml_paths[2].file_number].receipts_count = 2

ToolUsable == p7b_path.exists /\ p7b_path.cms = "xml"
PatternUsable == p7b_path.exists /\ p7b_path.binary \in {"rows", "upper_root"}

\* C22: extract_p7b_to_xml calls the tool strategy first and the pattern
\* strategy if and only if the tool returned no usable XML; it writes the
\* output file and returns True exactly when one of the two produced
\* content, and the content written is that of the first that did.
C22_ToolFirstThenPattern ==
    /\ Len(extraction.calls) <= 2
    /\ \A i \in DOMAIN extraction.calls :
          extraction.calls[i] = (IF i = 1 THEN "OpenSSL" ELSE "Regex")
    /\ (p7b_path.exists /\ extraction.pc \in {"write", "returned"}) =>
          /\ extraction.calls # <<>>
          /\ (Len(extraction.calls) = 2) <=> ~ToolUsable
    /\ extraction.pc # "returned" => output_path = NoFile
    /\ extraction.pc = "returned" =>
          /\ (extraction.returned = "True") <=> (ToolUsable \/ PatternUsable)
          /\ (extraction.returned = "True") <=> (output_path # NoFile)
          /\ ToolUsable => output_path = "stdout"
          /\ (~ToolUsable /\ PatternUsable) =>
                output_path \in {"declaration..</ROWS>", "declaration..</Root>"}

\* C22 witness: the tool returned nothing usable, the pattern strategy was
\* called after it and its match was written.
C22_Witness ==
    /\ extraction.pc = "returned"
    /\ extraction.calls = <<"OpenSSL", "Regex">>
    /\ p7b_path.cms = "not_utf8"
    /\ extraction.returned = "True"
    /\ output_path = "declaration..</ROWS>"

\* The requests built so far whose builder did not raise.
Documents == {i \in DOMAIN built : ~built[i].xml.user.raised}

\* The 14 digits of an instant's second.
SecondDigits(instant) == SelectSeq(instant.second, IsDigit)

\* C23: the request signature is taken of request id + the 14 digits of the
\* instant's second + key, so two requests of the same id and key whose
\* instants differ in the milliseconds only carry the same signature.
C23_SignatureIgnoresMilliseconds ==
    /\ \A i \in Documents :
          LET b == built[i]
          IN /\ Len(SecondDigits(b.instant)) = 14
             /\ b.xml.user.requestSignature
                   = sha3_512_upper(b.xml.requestId \o SecondDigits(b.instant)
                                       \o b.xml.user.key_to_use)
    /\ \A i, j \in Documents :
          (/\ built[i].xml.requestId = built[j].xml.requestId
           /\ built[i].xml.user.key_to_use = built[j].xml.user.key_to_use
           /\ built[i].instant.second = built[j].instant.second)
              => built[i].xml.user.requestSignature
                    = built[j].xml.user.requestSignature

\* C23 witness: two requests of one id and key, built in the same second at
\* different milliseconds, so with different header timestamps, carry the
\* same signature.
C23_Witness ==
    \E i, j \in Documents :
        /\ built[i].xml.requestId = built[j].xml.requestId
        /\ built[i].xml.user.key_to_use = built[j].xml.user.key_to_use
        /\ built[i].xml.user.key_to_use # <<>>
        /\ built[i].instant.second = built[j].instant.second
        /\ built[i].xml.timestamp # built[j].xml.timestamp
        /\ built[i].xml.user.requestSignature = built[j].xml.user.requestSignature

\* C24: in a status request and in a file-range request alike, the key the
\* signature is taken with is the exchange key when the command line set
\* --use-exchange-key, the signing key otherwise.
C24_CallerSelectsTheKey ==
    \A i \in Documents :
        built[i].xml.user.key_to_use
            = (IF built[i].use_exchange_key
               THEN cred.EXCHANGE_KEY ELSE cred.SIGNING_KEY)

\* C26: with the technical login, the password, the signing key or the tax
\* number blank, building a request raises and gives no document.
C26_BlankCredentialRaises ==
    \A i \in DOMAIN built :
        (\/ cred.TECH_LOGIN = <<>>
         \/ cred.TECH_PASSWORD = <<>>
         \/ cred.SIGNING_KEY = <<>>
         \/ cred.TAX_NUMBER_8DIG = <<>>)
            => built[i].xml.user.raised

\* The parts of the body whose header declares a binary type: header
\* lines, one of them with the type, then a blank line, then the content.
Declared ==
    {i \in DOMAIN resp.parts :
        \E k \in DOMAIN resp.parts[i] :
            /\ resp.parts[i][k] \in BinaryTypes
            /\ \E e \in (k + 1)..(Len(resp.parts[i]) - 1) :
                  /\ resp.parts[i][e] \in Whitespace
                  /\ resp.parts[i][e + 1] = resp.parts[i][e]}

\* C25: of a multipart body save_mtom_attachments returns, in body order,
\* one entry for each part whose header declares an octet-stream or ZIP
\* type and none for any other piece, and it raises no error.
C25_OneEntryPerBinaryPart ==
    resp.ctype = "multipart/related; boundary" =>
        /\ mtom.pc # "raised"
        /\ \A k \in DOMAIN mtom.saved : mtom.saved[k].part \in Declared
        /\ \A k, l \in DOMAIN mtom.saved :
              k < l => mtom.saved[k].part < mtom.saved[l].part
        /\ mtom.pc = "returned" =>
              {mtom.saved[k].part : k \in DOMAIN mtom.saved} = Declared

\* ---- properties of the watermark ----

\* C27: a merchant's stored watermark, once a number, stays a number and
\* never decreases, and a watermark write stores a number not below the
\* number the writing run read at its start.
C27_WatermarkNeverDecreases ==
    [][ \A u \in Users :
          userRec'[u] # userRec[u] =>
              /\ IsDecimal(Stored(u)') /\ Stored(u)' # Unset
              /\ (IsDecimal(Stored(u)) /\ Stored(u) # Unset) =>
                     int(Stored(u)') >= int(Stored(u))
              /\ (run.user_id = u /\ IsDecimal(run.lastbizonylatletoltve)
                    /\ run.lastbizonylatletoltve # Unset) =>
                     int(Stored(u)') >= int(run.lastbizonylatletoltve)
      ]_vars

\* C27 witness: a run that read the watermark of an earlier run has
\* written a higher one.
C27_Witness ==
    /\ run.updated
    /\ run.lastbizonylatletoltve # Unset
    /\ IsDecimal(run.lastbizonylatletoltve)
    /\ run.rec0.lastbizonylatletoltve = run.lastbizonylatletoltve
    /\ int(Stored(run.user_id)) > int(run.lastbizonylatletoltve)

\* C28: a run that has written the watermark end has created a record for
\* every file number of its range start..end, whatever was served,
\* extracted and parsed.
C28_DenseLedger ==
    (Running /\ run.updated) =>
        \A f \in run.start_file..run.end_file :
            /\ f \in Range(run.written)
            /\ Count(run.user_id, f) >= 1

\* C29: when a create fails after the run has created records, sync_user
\* returns success False with files_synced 0 and revenues_created 0, the
\* watermark is as it was, every record the run created is in the store,
\* and nothing is written until the result is returned.
C29_PartialWriteFailure ==
    [][ (run.pc = "done" /\ run.error = "create" /\ run.written # <<>>) =>
          /\ run.result = Result(FALSE, "Error", 0, 0)
          /\ ~run.updated
          /\ userRec[run.user_id] = run.rec0
          /\ \A f \in Range(run.written) : Count(run.user_id, f) >= 1
          /\ Len(revenues) >= Len(run.written)
          /\ revenues' = revenues
          /\ userRec' = userRec
      ]_vars

\* C29 witness: the second create of a run failed; the run is over, its
\* first record is stored and the result reports none.
C29_Witness ==
    /\ run.pc = "done"
    /\ run.error = "create"
    /\ Len(run.written) = 1
    /\ run.todo # <<>>
    /\ Count(run.user_id, run.written[1]) >= 1
    /\ run.result.revenues_created = 0
    /\ ~run.result.success

\* ---- properties of the credential swap ----

\* A thread is between calls: before get_nav_status, between it and
\* download_nav_files, or after the last of them.
BetweenCalls(u) == thread[u].pc \in {"idle", "read", "done"}

\* C30: in sequential execution, once get_nav_status or download_nav_files
\* has returned or raised, whatever the subprocess did, opg.py holds the
\* content it had before the call, opg.py.backup does not exist, and so no
\* merchant's credentials are left in opg.py.
C30_RestoredAfterTheCall ==
    (\A u \in Users : BetweenCalls(u)) =>
        /\ opg_path = Original
        /\ backup_path = Absent
        /\ \A u \in Users :
              thread[u].pc = "done" => thread[u].opg_content = opg_path

\* C30 witness: download_nav_files has raised on a timeout of the
\* subprocess, which had loaded the merchant's credentials, and opg.py is
\* restored.
C30_Witness ==
    \E u \in Users :
        /\ thread[u].pc = "done"
        /\ thread[u].call = "download"
        /\ thread[u].outcome = "timeout"
        /\ thread[u].raised
        /\ [call |-> "download", user |-> u, credentials |-> u] \in sent
        /\ opg_path = Original
        /\ backup_path = Absent

====
